---- MODULE Spec2Model ----
(***************************************************************************)
(* A model of the offer retrieval pipeline of eTilbudsavis-CLI.            *)
(*                                                                         *)
(*   Spec      the retrieval coordinator of src/requests/offer.rs          *)
(*             (retrieve_offers and the cache store around it)             *)
(*   SpecMain  the program of src/main.rs (main, the dealer aggregator,    *)
(*             the hotspot normalizer create_offer and cost_per_unit)      *)
(***************************************************************************)
EXTENDS Integers, Sequences, FiniteSets, TLC

VARIABLES
    \* ---- src/requests/offer.rs -------------------------------------------
    cache_dir,      \* dirs::cache_dir(): TRUE when the OS reports a cache directory
    cache_file,     \* <cache dir>/better_tilbudsavis/offer_cache.json
    stale,          \* UserData: what should_update_cache() answers
    favorites,      \* UserData.favorites
    call,           \* the last retrieve_offers call: its inputs, effects and result
    prev,           \* the call before it
    expired,        \* the TTL expired since the last call
    ncalls,         \* retrieve_offers calls made
    \* ---- src/main.rs ------------------------------------------------------
    pc,             \* where main is
    dealer,         \* the dealer main is retrieving
    catalogs,       \* retrieve_offers_from_dealer: the catalogs still to fetch
    offers,         \* retrieve_offers_from_dealer: the offers appended so far
    fetched,        \* per catalog requested for this dealer: what its request gave
    dealer_result,  \* what retrieve_offers_from_dealer returned to main
    costs           \* main: the Vec<f64> of offers_from_rema.iter().map(cost_per_unit)

coordVars == <<cache_dir, cache_file, stale, favorites, call, prev, expired, ncalls>>
mainVars == <<pc, dealer, catalogs, offers, fetched, dealer_result, costs>>
vars == <<coordVars, mainVars>>

(***************************************************************************)
(* Bounds.                                                                 *)
(***************************************************************************)
MaxCalls == 2
MaxCatalogs == 2
MaxHotspots == 2

(***************************************************************************)
(* f64.  A finite value is an exact fraction n/d in lowest terms (d > 0);  *)
(* the non-finite values are the infinities and NaN.                       *)
(***************************************************************************)
RECURSIVE Gcd(_, _)
Gcd(a, b) == IF b = 0 THEN a ELSE Gcd(b, a % b)

Abs(x) == IF x < 0 THEN -x ELSE x

Fin(n, d) ==
    LET g == Gcd(Abs(n), d)
    IN  IF n = 0 THEN [k |-> "fin", n |-> 0, d |-> 1]
        ELSE [k |-> "fin", n |-> n \div g, d |-> d \div g]

Inf(s) == [k |-> "inf", n |-> s, d |-> 0]
NaN == [k |-> "nan", n |-> 0, d |-> 0]

IsFinite(x) == x.k = "fin"

Sign(x) == IF x.n > 0 THEN 1 ELSE IF x.n < 0 THEN -1 ELSE 0

\* x * y
FMul(x, y) ==
    IF x.k = "nan" \/ y.k = "nan" THEN NaN
    ELSE IF x.k = "inf" \/ y.k = "inf"
         THEN IF Sign(x) * Sign(y) = 0 THEN NaN ELSE Inf(Sign(x) * Sign(y))
    ELSE Fin(x.n * y.n, x.d * y.d)

\* x / y, IEEE 754: a finite non-zero value over zero is an infinity, 0/0 is NaN
FDiv(x, y) ==
    IF x.k = "nan" \/ y.k = "nan" THEN NaN
    ELSE IF x.k = "inf" /\ y.k = "inf" THEN NaN
    ELSE IF x.k = "inf" THEN Inf(IF Sign(y) < 0 THEN -x.n ELSE x.n)
    ELSE IF y.k = "inf" THEN Fin(0, 1)
    ELSE IF y.n = 0 THEN (IF x.n = 0 THEN NaN ELSE Inf(Sign(x)))
    ELSE Fin(x.n * y.d * Sign(y), x.d * Abs(y.n))

\* x <= y on f64 (false when either is NaN)
FLeq(x, y) ==
    IF x.k = "nan" \/ y.k = "nan" THEN FALSE
    ELSE IF x.k = "inf" THEN x.n < 0 \/ (y.k = "inf" /\ y.n > 0)
    ELSE IF y.k = "inf" THEN y.n > 0
    ELSE x.n * y.d <= y.n * x.d

\* Option<T>
Some(v) == [some |-> TRUE, v |-> v]
None == [some |-> FALSE, v |-> <<>>]

RECURSIVE Flatten(_)
Flatten(ss) == IF ss = <<>> THEN <<>> ELSE Head(ss) \o Flatten(Tail(ss))

(***************************************************************************)
(* src/requests/offer.rs: the Offer record, its equality, the cache store  *)
(* and the retrieval coordinator.                                          *)
(***************************************************************************)
Dealers == {"Rema1000", "Netto"}

\* struct Offer; run_from and run_till are calendar days (NaiveDate)
MkOffer(id, name, d, price, cpu, unit, size, amount, from, till) ==
    [id |-> id, name |-> name, dealer |-> d, price |-> price,
     cost_per_unit |-> cpu, unit |-> unit, min_size |-> size, max_size |-> size,
     min_amount |-> amount, max_amount |-> amount, run_from |-> from, run_till |-> till]

\* impl PartialEq for Offer
OfferEq(a, b) ==
    \/ a.id = b.id
    \/ /\ a.dealer = b.dealer
       /\ a.name = b.name
       /\ a.run_from = b.run_from
       /\ a.run_till = b.run_till

\* What dealer.remote_offers_for_dealer() may hand back for one favorite: nothing
\* (a failed or empty fetch), or the offers of the dealer's catalogs.  Rema1000's two
\* overlapping catalogs carry the same promotion under two ids; Netto's offer is
\* sold by the kg with max_size 0, and its cost per unit may not be finite.
Milk(id) == MkOffer(id, "milk", "Rema1000", Fin(10, 1), Fin(10, 1), "l", Fin(1, 1), 1, 1, 7)
Eggs(cpu) == MkOffer("c", "eggs", "Netto", Fin(20, 1), cpu, "kg", Fin(0, 1), 1, 3, 9)

RemoteOffers(d) ==
    IF d = "Rema1000"
    THEN {<<>>, <<Milk("a"), Milk("b")>>}
    ELSE {<<Eggs(Fin(20, 1))>>, <<Eggs(Inf(1))>>}

\* ---- serde_json: the cache file's text -----------------------------------
JStr(s) == [t |-> "str", s |-> s]
JNum(x) == [t |-> "num", x |-> x]
JInt(i) == [t |-> "int", i |-> i]
JDate(day) == [t |-> "date", day |-> day]
JNull == [t |-> "null"]

\* serde_json writes a non-finite f64 as null
SerF64(x) == IF IsFinite(x) THEN JNum(x) ELSE JNull

SerOffer(o) ==
    [id |-> JStr(o.id), name |-> JStr(o.name), dealer |-> JStr(o.dealer),
     price |-> SerF64(o.price), cost_per_unit |-> SerF64(o.cost_per_unit),
     unit |-> JStr(o.unit), min_size |-> SerF64(o.min_size),
     max_size |-> SerF64(o.max_size), min_amount |-> JInt(o.min_amount),
     max_amount |-> JInt(o.max_amount), run_from |-> JDate(o.run_from),
     run_till |-> JDate(o.run_till)]

\* serde_json::to_string(offers)
Serialize(os) == [i \in 1..Len(os) |-> SerOffer(os[i])]

F64Fields == {"price", "cost_per_unit", "min_size", "max_size"}

\* an f64 field reads a number; null is "invalid type: null, expected f64"
Decodable(j) == \A f \in F64Fields : j[f].t \in {"num", "int"}

DeF64(j) == IF j.t = "int" THEN Fin(j.i, 1) ELSE j.x

DeOffer(j) ==
    [id |-> j.id.s, name |-> j.name.s, dealer |-> j.dealer.s,
     price |-> DeF64(j.price), cost_per_unit |-> DeF64(j.cost_per_unit),
     unit |-> j.unit.s, min_size |-> DeF64(j.min_size), max_size |-> DeF64(j.max_size),
     min_amount |-> j.min_amount.i, max_amount |-> j.max_amount.i,
     run_from |-> j.run_from.day, run_till |-> j.run_till.day]

\* the file: absent, text that is no JSON array of offers, or a JSON array
Absent == [kind |-> "absent", body |-> <<>>]
Garbage == [kind |-> "garbage", body |-> <<>>]
JsonFile(body) == [kind |-> "json", body |-> body]

Ok(v) == [ok |-> TRUE, v |-> v]
Err == [ok |-> FALSE, v |-> <<>>]

\* a load that looks for the file where the store never writes it
retrieve_cached_offers_wrong_path(dir, file) == Err

\* fn retrieve_cached_offers() -> Result<Vec<Offer>>
retrieve_cached_offers(dir, file) ==
    IF ~dir THEN Err                                  \* Could not find cache dir
    ELSE IF file.kind = "absent" THEN Err             \* Offer cache not found
    ELSE IF file.kind = "garbage" THEN Err            \* Offer cache has invalid JSON
    ELSE IF \E i \in 1..Len(file.body) : ~Decodable(file.body[i]) THEN Err
    ELSE Ok([i \in 1..Len(file.body) |-> DeOffer(file.body[i])])

\* async fn retrieve_offers_from_remote: join_all over the favorites in order,
\* flattened; resp[i] is what the i-th favorite's remote_offers_for_dealer gave
\* .offers is what it returns, .calls the remote_offers_for_dealer calls it makes
retrieve_offers_from_remote(favs, resp) ==
    [offers |-> Flatten([i \in 1..Len(favs) |-> resp[i]]),
     calls |-> [i \in 1..Len(favs) |-> <<"remote", favs[i]>>]]

\* What the file system does to cache_retrieved_offers.
IoOutcomes == {"ok", "mkdir_err", "ser_err", "open_err", "write_err"}

\* a store that marks the cache updated before it knows the write went through
cache_retrieved_offers_eager(dir, file, st, os, io) ==
    IF dir /\ io = "ok"
    THEN [file |-> JsonFile(Serialize(os)), stale |-> FALSE,
          log |-> <<<<"write">>, <<"cache_updated">>>>, ok |-> TRUE]
    ELSE [file |-> file, stale |-> FALSE, log |-> <<<<"cache_updated">>>>, ok |-> FALSE]

\* fn cache_retrieved_offers(userdata, offers) -> Result<()>: the file, the
\* collaborator's TTL state and the effects, in order, that it leaves behind
cache_retrieved_offers(dir, file, st, os, io) ==
    IF ~dir THEN [file |-> file, stale |-> st, log |-> <<>>, ok |-> FALSE]
    ELSE IF io = "mkdir_err"
         THEN [file |-> file, stale |-> st, log |-> <<>>, ok |-> FALSE]
    ELSE IF io = "ser_err"
         THEN [file |-> file, stale |-> st, log |-> <<>>, ok |-> FALSE]
    ELSE IF io = "open_err"       \* std::fs::write cannot create the file
         THEN [file |-> file, stale |-> st, log |-> <<>>, ok |-> FALSE]
    ELSE IF io = "write_err"      \* std::fs::write truncated the file, then failed
         THEN [file |-> Garbage, stale |-> st, log |-> <<>>, ok |-> FALSE]
    ELSE [file |-> JsonFile(Serialize(os)), stale |-> FALSE,
          log |-> <<<<"write">>, <<"cache_updated">>>>, ok |-> TRUE]

\* a condition that needs both signals
NeedsRefresh_both(fc, outdated) == fc /\ outdated

\* retrieve_offers: `if favorites_changed || cache_outdated`
NeedsRefresh(fc, outdated) == fc \/ outdated

\* a refreshing arm that ignores the favorites_changed signal
retrieve_offers_fn_ttl_only(dir, file, st, favs, fc, resp, io) ==
    LET cached == retrieve_cached_offers(dir, file)
        remote == retrieve_offers_from_remote(favs, resp)
        w == cache_retrieved_offers(dir, file, st, remote.offers, io)
    IN  IF cached.ok /\ ~st
        THEN [result |-> cached.v, file |-> file, stale |-> st, wrote |-> FALSE,
              log |-> <<>>]
        ELSE [result |-> remote.offers, file |-> w.file, stale |-> w.stale,
              wrote |-> w.ok,
              log |-> remote.calls \o <<<<"store">>>> \o w.log
                      \o (IF w.ok THEN <<>> ELSE <<<<"eprintln">>>>)]

\* the refreshing arm of retrieve_offers (both arms of the match hold the same code)
Refresh(dir, file, st, favs, resp, io) ==
    LET remote == retrieve_offers_from_remote(favs, resp)
        w == cache_retrieved_offers(dir, file, st, remote.offers, io)
    IN  [result |-> remote.offers, file |-> w.file, stale |-> w.stale, wrote |-> w.ok,
         log |-> remote.calls \o <<<<"store">>>> \o w.log
                 \o (IF w.ok THEN <<>> ELSE <<<<"eprintln">>>>)]

\* pub(crate) async fn retrieve_offers(userdata, favorites_changed) -> Vec<Offer>
retrieve_offers_fn(dir, file, st, favs, fc, resp, io) ==
    LET cached == retrieve_cached_offers(dir, file)
    IN  IF cached.ok
        THEN IF NeedsRefresh(fc, st)            \* userdata.should_update_cache()
             THEN Refresh(dir, file, st, favs, resp, io)
             ELSE [result |-> cached.v, file |-> file, stale |-> st, wrote |-> FALSE,
                   log |-> <<>>]
        ELSE Refresh(dir, file, st, favs, resp, io)

\* .wrote: cache_retrieved_offers ran and returned Ok(()); .quiet: the TTL did not
\* expire between the call before and this one
NoCall == [fc |-> FALSE, loaded |-> FALSE, cached |-> <<>>, outdated |-> FALSE,
           wrote |-> FALSE, quiet |-> FALSE, result |-> <<>>, log |-> <<>>]

\* the responses of one refresh: one per favorite
Responses(favs) ==
    {r \in [1..Len(favs) -> UNION {RemoteOffers(d) : d \in Dealers}] :
        \A i \in 1..Len(favs) : r[i] \in RemoteOffers(favs[i])}

RetrieveOffers ==
    /\ ncalls < MaxCalls
    /\ \E fc \in BOOLEAN, io \in IoOutcomes, resp \in Responses(favorites) :
         LET cached == retrieve_cached_offers(cache_dir, cache_file)
             r == retrieve_offers_fn(cache_dir, cache_file, stale, favorites, fc, resp, io)
         IN  /\ cache_file' = r.file
             /\ stale' = r.stale
             /\ call' = [fc |-> fc, loaded |-> cached.ok, cached |-> cached.v,
                         outdated |-> stale, wrote |-> r.wrote,
                         quiet |-> (ncalls > 0 /\ ~expired),
                         result |-> r.result, log |-> r.log]
             /\ prev' = call
    /\ expired' = FALSE
    /\ ncalls' = ncalls + 1
    /\ UNCHANGED <<cache_dir, favorites>>

\* UserData: the refresh time passes, should_update_cache() turns true
TtlExpires ==
    /\ ~stale
    /\ stale' = TRUE
    /\ expired' = TRUE
    /\ UNCHANGED <<cache_dir, cache_file, favorites, call, prev, ncalls>>

FavoriteLists == {<<>>, <<"Rema1000">>, <<"Rema1000", "Netto">>}

InitMainIdle ==
    /\ pc = "idle" /\ dealer = "none" /\ catalogs = <<>> /\ offers = <<>>
    /\ fetched = <<>> /\ dealer_result = None /\ costs = <<>>

Init ==
    /\ cache_dir \in BOOLEAN
    /\ cache_file \in {Absent, Garbage}
                      \cup {JsonFile(Serialize(os)) : os \in {<<>>, <<Milk("a")>>}}
    /\ stale \in BOOLEAN
    /\ favorites \in FavoriteLists
    /\ call = NoCall /\ prev = NoCall /\ expired = FALSE /\ ncalls = 0
    /\ InitMainIdle

Next ==
    \/ RetrieveOffers /\ UNCHANGED mainVars
    \/ TtlExpires /\ UNCHANGED mainVars

Spec == Init /\ [][Next]_vars

(***************************************************************************)
(* src/main.rs: hotspot JSON, create_offer, cost_per_unit, the dealer      *)
(* aggregator and main.                                                    *)
(***************************************************************************)
\* serde_json::Value leaves.  A u64 is kept in three words, w2 * 2^32 + w1 * 2^16
\* + w0 with w1, w0 < 2^16, so that values of 2^32 and above are representable;
\* a u32 is the two low words.
JPos(w2, w1, w0) == [t |-> "u64", w2 |-> w2, w1 |-> w1, w0 |-> w0]
JFloat(x) == [t |-> "f64", x |-> x]

\* Value::as_str
as_str(j) == IF j.t = "str" THEN Some(j.s) ELSE None

\* Value::as_u64: only a non-negative integer
as_u64(j) == IF j.t = "u64" THEN Some([w2 |-> j.w2, w1 |-> j.w1, w0 |-> j.w0]) ELSE None

\* Value::as_f64: any number (an integer is converted; exact below 2^31 here)
as_f64(j) ==
    IF j.t = "f64" THEN Some(j.x)
    ELSE IF j.t = "u64" THEN Some(Fin((j.w2 * 65536 + j.w1) * 65536 + j.w0, 1))
    ELSE None

\* `x as u32`: the value modulo 2^32
AsU32(u) == [w1 |-> u.w1, w0 |-> u.w0]

\* str::split('T').next(): the text before the first 'T' (all of it without one)
RECURSIVE BeforeT(_)
BeforeT(str) ==
    IF str = <<>> \/ Head(str) = "T" THEN <<>>
    ELSE <<Head(str)>> \o BeforeT(Tail(str))

\* One hotspot: the eleven leaves create_offer reads (a leaf that is absent, or
\* whose parent object is absent, indexes to Value::Null).
Hotspot(id, heading, price, pfrom, pto, sfrom, sto, factor, symbol, from, till) ==
    [id |-> id, heading |-> heading, price |-> price, pieces_from |-> pfrom,
     pieces_to |-> pto, size_from |-> sfrom, size_to |-> sto, factor |-> factor,
     symbol |-> symbol, run_from |-> from, run_till |-> till]

\* fn create_offer(offer_wrapper: Value) -> Option<Offer>
create_offer(h) ==
    LET factor == as_f64(h.factor)
        id == as_str(h.id)
        name == as_str(h.heading)
        price == as_f64(h.price)
        pfrom == as_u64(h.pieces_from)
        pto == as_u64(h.pieces_to)
        sfrom == as_f64(h.size_from)
        sto == as_f64(h.size_to)
        unit == as_str(h.symbol)
        from == as_str(h.run_from)
        till == as_str(h.run_till)
    IN  IF ~factor.some THEN None
        ELSE IF ~id.some \/ ~name.some \/ ~price.some THEN None
        ELSE IF ~pfrom.some \/ ~pto.some THEN None
        ELSE IF ~sfrom.some \/ ~sto.some THEN None
        ELSE IF ~unit.some \/ ~from.some \/ ~till.some THEN None
        ELSE Some([id |-> id.v, name |-> name.v, price |-> price.v,
                   min_amount |-> AsU32(pfrom.v), max_amount |-> AsU32(pto.v),
                   min_size |-> FMul(sfrom.v, factor.v),
                   max_size |-> FMul(sto.v, factor.v),
                   unit |-> unit.v,
                   start_date |-> BeforeT(from.v), end_date |-> BeforeT(till.v)])

\* fn cost_per_unit(offer: &Offer) -> f64
cost_per_unit(offer) ==
    IF offer.unit = "kg" THEN FDiv(offer.price, offer.max_size)
    ELSE IF offer.unit = "l" THEN FDiv(offer.price, offer.max_size)
    ELSE offer.price

\* parsed.into_iter().filter_map(create_offer).collect()
RECURSIVE FilterMapCreateOffer(_)
FilterMapCreateOffer(hs) ==
    IF hs = <<>> THEN <<>>
    ELSE LET o == create_offer(Head(hs))
         IN  (IF o.some THEN <<o.v>> ELSE <<>>) \o FilterMapCreateOffer(Tail(hs))

\* ---- the hotspots the upstream may send -----------------------------------
Day(n) == JStr(<<"2", "0", n, "T", "0", "0">>)
One == JPos(0, 0, 1)
Two == JPos(0, 0, 2)
Milli == JFloat(Fin(1, 1000))

\* 500 g to 1000 g of something at 10 kr, one piece, valid from day 1 to day 2
WellFormed ==
    Hotspot(JStr("h1"), JStr("milk"), JPos(0, 0, 10), One, One,
            JPos(0, 0, 500), JPos(0, 0, 1000), Milli, JStr("kg"), Day("1"), Day("2"))

HotspotPool ==
    { WellFormed,
      [WellFormed EXCEPT !.id = JStr("h2"), !.symbol = JStr("stk")],       \* per piece
      [WellFormed EXCEPT !.price = JNull],                                 \* no price
      [WellFormed EXCEPT !.id = JPos(0, 0, 7)],                            \* id a number
      [WellFormed EXCEPT !.pieces_from = JFloat(Fin(1, 1))],               \* 1.0 pieces
      [WellFormed EXCEPT !.id = JStr("h3"), !.pieces_to = JPos(1, 0, 1)],  \* 1 to 2^32+1
      [WellFormed EXCEPT !.id = JStr("h4"), !.pieces_from = Two],          \* 2 to 1
      [WellFormed EXCEPT !.id = JStr("h5"), !.size_from = JPos(0, 0, 0),
                         !.size_to = JPos(0, 0, 0)],                       \* size 0
      [WellFormed EXCEPT !.id = JStr("h6"), !.run_from = Day("2"),
                         !.run_till = Day("1")],                           \* ends first
      [WellFormed EXCEPT !.id = JStr("h7"), !.symbol = JStr("")],          \* no unit
      [WellFormed EXCEPT !.id = JStr("h8"), !.price = JFloat(Fin(-5, 1))]  \* price < 0
    }

RECURSIVE SeqsUpTo(_, _)
SeqsUpTo(S, n) ==
    IF n = 0 THEN {<<>>}
    ELSE LET shorter == SeqsUpTo(S, n - 1)
         IN  shorter \cup {Append(q, x) : q \in {r \in shorter : Len(r) = n - 1}, x \in S}

\* What one GET /catalogs/<id>/hotspots gives: no response, a body that is no
\* JSON array, or an array of hotspots.
HotspotResponses ==
    {[kind |-> "transport_err", body |-> <<>>], [kind |-> "undecodable", body |-> <<>>]}
    \cup {[kind |-> "json", body |-> b] : b \in SeqsUpTo(HotspotPool, MaxHotspots)}

\* What GET /catalogs gives: no response, a status other than 200, a 200 whose body
\* is no array of catalogs, or a 200 with n catalogs.
CatalogResponses ==
    {[kind |-> "transport_err", n |-> 0], [kind |-> "not_ok", n |-> 0],
     [kind |-> "undecodable", n |-> 0]}
    \cup {[kind |-> "json", n |-> n] : n \in 0..MaxCatalogs}

\* main calls retrieve_offers_from_dealer(&Dealer::Rema1000), which sends the
\* catalog request
MainStart ==
    /\ pc = "start"
    /\ pc' = "request_catalogs"
    /\ dealer' = "Rema1000"
    /\ UNCHANGED <<catalogs, offers, fetched, dealer_result, costs>>

\* retrieve_offers_from_dealer, up to the first hotspot request: request_catalogs
\* answers; the catalogs are decoded when the status is 200
RequestCatalogs ==
    /\ pc = "request_catalogs"
    /\ \E r \in CatalogResponses :
         IF r.kind \in {"transport_err", "undecodable"}
         THEN /\ dealer_result' = None            \* request_catalogs(..)?, .ok()?
              /\ catalogs' = <<>>
              /\ pc' = "returned"
         ELSE LET cs == IF r.kind = "not_ok" THEN <<>> ELSE [i \in 1..r.n |-> i]
              IN  /\ catalogs' = cs
                  /\ dealer_result' = IF cs = <<>> THEN Some(<<>>) ELSE None
                  /\ pc' = IF cs = <<>> THEN "returned" ELSE "hotspots"
    /\ offers' = <<>>
    /\ fetched' = <<>>
    /\ costs' = <<>>                  \* the printed Vec<f64> was a temporary
    /\ UNCHANGED dealer

\* retrieve_offers_from_catalog for the next catalog of the loop, and the loop's
\* `offers.append(&mut retrieve_offers_from_catalog(catalog, &client).await?)`
RetrieveOffersFromCatalog ==
    /\ pc = "hotspots"
    /\ catalogs # <<>>
    /\ \E r \in HotspotResponses :
         IF r.kind # "json"
         THEN /\ fetched' = Append(fetched, [catalog |-> Head(catalogs), ok |-> FALSE,
                                             hotspots |-> <<>>, offers |-> <<>>])
              /\ dealer_result' = None
              /\ pc' = "returned"
              /\ UNCHANGED <<offers, catalogs>>
         ELSE LET got == FilterMapCreateOffer(r.body)
              IN  /\ fetched' = Append(fetched, [catalog |-> Head(catalogs), ok |-> TRUE,
                                                 hotspots |-> r.body, offers |-> got])
                  /\ offers' = offers \o got
                  /\ catalogs' = Tail(catalogs)
                  /\ dealer_result' = IF Tail(catalogs) = <<>> THEN Some(offers \o got)
                                      ELSE None
                  /\ pc' = IF Tail(catalogs) = <<>> THEN "returned" ELSE "hotspots"
    /\ UNCHANGED <<dealer, costs>>

\* main resumes: .unwrap(), the printing of the offers and of their cost per unit,
\* and the call for the next dealer
MainResume ==
    /\ pc = "returned"
    /\ IF ~dealer_result.some
       THEN /\ pc' = "panicked"               \* called `Option::unwrap()` on a `None`
            /\ UNCHANGED <<dealer, costs>>
       ELSE IF dealer = "Rema1000"
       THEN /\ costs' = [i \in 1..Len(dealer_result.v) |-> cost_per_unit(dealer_result.v[i])]
            /\ dealer' = "Netto"
            /\ pc' = "request_catalogs"
       ELSE /\ pc' = "done"
            /\ UNCHANGED <<dealer, costs>>
    /\ UNCHANGED <<catalogs, offers, fetched, dealer_result>>

InitMain ==
    /\ cache_dir = FALSE /\ cache_file = Absent /\ stale = FALSE /\ favorites = <<>>
    /\ call = NoCall /\ prev = NoCall /\ expired = FALSE /\ ncalls = 0
    /\ pc = "start" /\ dealer = "none" /\ catalogs = <<>> /\ offers = <<>>
    /\ fetched = <<>> /\ dealer_result = None /\ costs = <<>>

NextMain ==
    \/ MainStart /\ UNCHANGED coordVars
    \/ RequestCatalogs /\ UNCHANGED coordVars
    \/ RetrieveOffersFromCatalog /\ UNCHANGED coordVars
    \/ MainResume /\ UNCHANGED coordVars

SpecMain == InitMain /\ [][NextMain]_vars

(***************************************************************************)
(* Properties of the retrieval coordinator (checked under Spec).           *)
(***************************************************************************)
Events(log) == {log[i] : i \in 1..Len(log)}

RemoteEvents(log) == SelectSeq(log, LAMBDA e : e[1] = "remote")

Count(log, e) == Cardinality({i \in 1..Len(log) : log[i] = e})

\* the call made no remote request and handed back what the cache load gave
ServedFromCache(c) == c.log = <<>> /\ c.result = c.cached

\* the call ran the remote refresh, once per favorite in order, and then tried to
\* store the offers
Refreshed(c) ==
    /\ Len(c.log) > Len(favorites)
    /\ SubSeq(c.log, 1, Len(favorites)) = [i \in 1..Len(favorites) |-> <<"remote", favorites[i]>>]
    /\ c.log[Len(favorites) + 1] = <<"store">>

CacheHit(c) == c.loaded /\ ~c.fc /\ ~c.outdated

\* C1: retrieve_offers returns the cached sequence as-is, with no remote request,
\* exactly when the cache loads, favorites_changed is false and
\* should_update_cache() is false; in every other combination it refreshes from
\* remote and attempts to write the cache.
C1_CacheDecision ==
    ncalls > 0 =>
        /\ CacheHit(call) <=> ServedFromCache(call)
        /\ ~CacheHit(call) <=> Refreshed(call)

C1_Witness ==
    /\ ncalls > 0
    /\ CacheHit(call)
    /\ Len(call.result) > 0
    /\ Len(favorites) > 0

\* C2: every call with favorites_changed = true runs the remote refresh once per
\* favorite, whether or not a cache is present and whatever should_update_cache()
\* reports.
C2_Preemption ==
    (ncalls > 0 /\ call.fc) =>
        RemoteEvents(call.log) = [i \in 1..Len(favorites) |-> <<"remote", favorites[i]>>]

C2_Witness ==
    /\ ncalls > 0
    /\ call.fc
    /\ call.loaded
    /\ ~call.outdated
    /\ Len(RemoteEvents(call.log)) = 2

AllFinite(os) ==
    \A i \in 1..Len(os) : \A f \in F64Fields : IsFinite(os[i][f])

\* two successive calls, both with favorites_changed = false, and no TTL expiry
\* between them
TwoQuietCalls == ncalls >= 2 /\ call.quiet /\ ~prev.fc /\ ~call.fc

C4_Deduplicated ==
    ncalls > 0 =>
        \A i, j \in 1..Len(call.result) :
            i # j => ~OfferEq(call.result[i], call.result[j])

\* C8: cache_updated() is invoked exactly when a cache write has succeeded, once
\* and after the write; not when the store fails, nor when the cache is served.
C8_CacheUpdated ==
    ncalls > 0 =>
        /\ call.wrote <=> <<"cache_updated">> \in Events(call.log)
        /\ call.wrote <=> <<"write">> \in Events(call.log)
        /\ Count(call.log, <<"cache_updated">>) <= 1
        /\ \A i, j \in 1..Len(call.log) :
               (call.log[i] = <<"write">> /\ call.log[j] = <<"cache_updated">>) => i < j
        /\ call.wrote => cache_file = JsonFile(Serialize(call.result))
        /\ ServedFromCache(call) => ~call.wrote

C8_Witness ==
    /\ ncalls > 0
    /\ call.wrote
    /\ call.outdated
    /\ call.log[Len(call.log)] = <<"cache_updated">>

(***************************************************************************)
(* Properties of the program of src/main.rs (checked under SpecMain).      *)
(***************************************************************************)
U32Leq(a, b) == a.w1 < b.w1 \/ (a.w1 = b.w1 /\ a.w0 <= b.w0)

\* a u32 holds the same number as a u64
SameCount(a, u) == u.w2 = 0 /\ a.w1 = u.w1 /\ a.w0 = u.w0

CharOrd(c) ==
    CASE c = "0" -> 0 [] c = "1" -> 1 [] c = "2" -> 2 [] OTHER -> 9

\* text order, as ISO dates compare
RECURSIVE TextLeq(_, _)
TextLeq(a, b) ==
    IF a = <<>> THEN TRUE
    ELSE IF b = <<>> THEN FALSE
    ELSE IF Head(a) # Head(b) THEN CharOrd(Head(a)) < CharOrd(Head(b))
    ELSE TextLeq(Tail(a), Tail(b))

ValidOffer(o) ==
    /\ TextLeq(o.start_date, o.end_date)
    /\ FLeq(o.min_size, o.max_size)
    /\ U32Leq(o.min_amount, o.max_amount)
    /\ FLeq(Fin(0, 1), o.price)
    /\ o.unit # ""

\* C5: every offer the normalizer produces satisfies run_from <= run_till,
\* min_size <= max_size, min_amount <= max_amount, price >= 0 and a non-empty
\* unit; a hotspot that violates one of them is dropped.
C5_OfferInvariants ==
    \A k \in 1..Len(fetched) :
        \A i \in 1..Len(fetched[k].offers) : ValidOffer(fetched[k].offers[i])

Positive(x) == x.k # "nan" /\ x.n > 0

ExpectedCost(o) ==
    IF o.unit \in {"kg", "l"} /\ Positive(o.max_size)
    THEN FDiv(o.price, o.max_size)
    ELSE o.price

\* C6: cost_per_unit is price / max_size when the unit is "kg" or "l" and
\* max_size > 0, and price otherwise; with max_size zero it is price, never an
\* infinite or NaN quotient.
C6_CostPerUnit ==
    (pc = "request_catalogs" /\ dealer = "Netto") =>
        /\ Len(costs) = Len(dealer_result.v)
        /\ \A i \in 1..Len(costs) :
               /\ costs[i] = ExpectedCost(dealer_result.v[i])
               /\ IsFinite(costs[i])

\* C7: the retrieval never ends in a fatal error: whatever fails, the program
\* goes on with an offer sequence (possibly empty) and never panics.
C7_NoPanic == pc # "panicked"

WellTyped(h) ==
    /\ h.id.t = "str" /\ h.heading.t = "str" /\ h.symbol.t = "str"
    /\ h.run_from.t = "str" /\ h.run_till.t = "str"
    /\ h.pieces_from.t = "u64" /\ h.pieces_to.t = "u64"
    /\ \A f \in {"price", "size_from", "size_to", "factor"} : h[f].t \in {"u64", "f64"}

MappedFrom(o, h) ==
    /\ o.id = h.id.s /\ o.name = h.heading.s /\ o.unit = h.symbol.s
    /\ o.price = as_f64(h.price).v
    /\ SameCount(o.min_amount, as_u64(h.pieces_from).v)
    /\ SameCount(o.max_amount, as_u64(h.pieces_to).v)
    /\ o.min_size = FMul(as_f64(h.size_from).v, as_f64(h.factor).v)
    /\ o.max_size = FMul(as_f64(h.size_to).v, as_f64(h.factor).v)
    /\ o.start_date = BeforeT(h.run_from.s)
    /\ o.end_date = BeforeT(h.run_till.s)

\* C9: create_offer yields nothing exactly for a hotspot with a missing or
\* wrong-typed field, and otherwise one offer whose fields equal the mapped inputs:
\* the piece counts equal the upstream integers, also above 2^32 - 1.
C9_CreateOfferTotal ==
    \A k \in 1..Len(fetched) :
        fetched[k].ok =>
            LET kept == SelectSeq(fetched[k].hotspots, WellTyped)
            IN  /\ Len(fetched[k].offers) = Len(kept)
                /\ \A i \in 1..Len(kept) : MappedFrom(fetched[k].offers[i], kept[i])

\* C10: when the hotspot request of one catalog fails, the offers of every catalog
\* whose request succeeded are still in the sequence the dealer aggregator returns.
C10_PartialFailure ==
    (pc = "returned" /\ \E k \in 1..Len(fetched) : ~fetched[k].ok) =>
        /\ \A k \in 1..Len(fetched) :
               \A i \in 1..Len(fetched[k].offers) :
                   \E j \in 1..Len(dealer_result.v) :
                       dealer_result.v[j] = fetched[k].offers[i]

====
